---- MODULE Spec2Model ----
(***************************************************************************)
(* Model of ibis' SQL compilation core                                     *)
(* (ibis/backends/base/sql/compiler/translator.py): the QueryContext tree  *)
(* (aliases, extracted subexpressions, subquery memo, correlation test),   *)
(* ExprTranslator.translate with its rewrite table, and the Bucket         *)
(* rewrite.                                                                *)
(***************************************************************************)
EXTENDS Integers, FiniteSets, Sequences, TLC

(***************************************************************************)
(* Bounds of the model.                                                    *)
(***************************************************************************)
\* number of QueryContext objects that may exist (root included)
MaxCtx == 3
\* number of budgeted calls on the contexts of one compilation: alias-table
\* writes (make_alias, set_ref, set_extracted), set_query, set_always_alias
\* and the queries made as calls
MaxCalls == 4

Ctxs == 1..MaxCtx
\* the table expressions a compilation refers to: two distinct nodes
Nodes == {"A", "B"}

\* parent=None of the root context
NoParent == 0
\* the root context, the first one constructed
Root == 1
\* a miss of dict.get(node): None
NoAlias == "None"
\* aliases a caller may hand to set_ref (any string: a generated-looking one
\* and a foreign one)
RefAliases == {"t0", "s"}

\* query=None of a fresh context
NoQuery == [set |-> FALSE, table_set |-> {}, select_set |-> {}]
\* the physical tables that can be the root of an expression
Tables == {"x", "y"}
\* what set_query may be handed: the roots of the query's table set and of
\* its select list
Queries ==
    { q \in [set : {TRUE}, table_set : {{"x"}, {"y"}}, select_set : {{}, {"y"}}] :
        q.select_set \cap q.table_set = {} }

\* the expressions get_compiled_expr is asked for: a join, a table under it,
\* and a pre-rendered SQL query node
Exprs == {"join", "tbl", "sqlq"}
\* no entry in subquery_memo / nothing returned yet
NoText == "None"
\* the texts the compiler may render for a subquery (it depends on the
\* state of the context it is compiled in)
CompileTexts == {"sql1", "sql2"}

VARIABLES
    nctx,               \* number of QueryContext objects constructed so far
    ncalls,             \* number of budgeted calls made so far
    parent,             \* QueryContext.parent, per context
    table_refs,         \* QueryContext.table_refs, per context: node -> alias
    extracted_subexprs, \* QueryContext.extracted_subexprs, per context
    query,              \* QueryContext.query, per context
    last,               \* the last call made on a context: method, context, node
    subquery_memo,      \* QueryContext.subquery_memo, per context: node -> text
    stack,              \* the get_compiled_expr calls waiting for _compile_subquery
    compiled,           \* per node, how often _compile_subquery was invoked
    ret,                \* what the last finished get_compiled_expr returned
    registry,           \* ExprTranslator._registry: the types with a formatter
    params,             \* QueryContext.params: scalar parameter -> raw value
    tr_op,              \* the node the last translate call was given
    result,             \* what the last translate call returned or raised
    bucket_op,          \* the ops.Bucket node handed to the Bucket rewrite
    stmt,               \* the CASE branches the rewrite built
    value,              \* the value of op.arg the CASE is evaluated on
    bucket_id,          \* the bucket the CASE yields for value
    bk_pc,              \* "built", "rewritten" or "evaluated"
    bag,                \* the 0/1 values of the rows a reduction ranges over
    agg,                \* the value of the lowered reduction over bag
    named,              \* ExprTranslator.named
    node_name,          \* self.node.name of the translator's root node
    gr,                 \* what the last get_result call returned
    tr_pc,              \* where the translate call under way stands
    tr_cur,             \* the local variable op of the translate call under way
    lookups,            \* per translate call made, its lookups in _rewrites
    always_alias,       \* QueryContext.always_alias, per context
    qret                \* what the last query of a context returned

ctxVars == <<nctx, ncalls, parent, table_refs, extracted_subexprs, query, last>>
memoVars == <<subquery_memo, stack, compiled, ret>>
trVars == <<registry, params, tr_op, result>>
bkVars == <<bucket_op, stmt, value, bucket_id, bk_pc>>
lwVars == <<bag, agg>>
grVars == <<named, node_name, gr>>
stVars == <<tr_pc, tr_cur, lookups>>
qVars == <<always_alias, qret>>
extVars == <<lwVars, grVars, stVars, qVars>>
vars == <<ctxVars, memoVars, trVars, bkVars, extVars>>

Live == 1..nctx

Call(op, c, node) == [op |-> op, ctx |-> c, node |-> node]

\* QueryContext.__init__: empty alias table
EmptyRefs == [n \in Nodes |-> NoAlias]

\* len(ctx.table_refs)
NumRefs(c) == Cardinality({n \in Nodes : table_refs[c][n] # NoAlias})

\* QueryContext.top_context
RECURSIVE top_context(_)
top_context(c) == IF parent[c] = NoParent THEN c ELSE top_context(parent[c])

\* QueryContext._contexts(parents=True): self, then the ancestors, nearest first
RECURSIVE _contexts(_)
_contexts(c) == IF parent[c] = NoParent THEN <<c>> ELSE <<c>> \o _contexts(parent[c])

\* a plausible slip in make_alias: the ancestors' alias counts are not added
RECURSIVE alias_walk_nocount(_, _, _)
alias_walk_nocount(ctx, node, i) ==
    IF ctx = NoParent THEN "t" \o ToString(i)
    ELSE IF table_refs[ctx][node] # NoAlias THEN table_refs[ctx][node]
    ELSE alias_walk_nocount(parent[ctx], node, i)

\* the for loop of make_alias, entered at ancestor ctx with the running count
\* i: the alias make_alias hands to set_ref
RECURSIVE alias_walk(_, _, _)
alias_walk(ctx, node, i) ==
    IF ctx = NoParent THEN "t" \o ToString(i)
    ELSE IF table_refs[ctx][node] # NoAlias THEN table_refs[ctx][node]
    ELSE alias_walk(parent[ctx], node, i + NumRefs(ctx))

\* QueryContext.has_ref(node, parent_contexts)
has_ref(c, node, parent_contexts) ==
    IF parent_contexts
    THEN \E k \in 1..Len(_contexts(c)) : table_refs[_contexts(c)[k]][node] # NoAlias
    ELSE table_refs[c][node] # NoAlias

\* QueryContext.is_extracted
is_extracted(c, node) == node \in extracted_subexprs[top_context(c)]

\* a plausible slip in get_ref: the local table is read on the extracted path
get_ref_local(c, node) == table_refs[c][node]

\* QueryContext.get_ref
get_ref(c, node) ==
    IF is_extracted(c, node) THEN table_refs[top_context(c)][node]
    ELSE table_refs[c][node]

\* the table roots of a node (find_immediate_parent_tables): "A" is a
\* table, "B" is built from two tables
Roots(node) == IF node = "A" THEN {"x"} ELSE {"x", "y"}

\* ibis.expr.analysis.shares_all_roots(op, parents)
shares_all_roots(node, parent_roots) == Roots(node) \subseteq parent_roots

\* a plausible slip in is_foreign_expr: only the local alias table is asked
is_foreign_expr_local(c, node) ==
    IF has_ref(c, node, FALSE) THEN FALSE
    ELSE ~shares_all_roots(node, query[c].table_set \cup query[c].select_set)

\* QueryContext.is_foreign_expr, for a context whose query is set
is_foreign_expr(c, node) ==
    IF has_ref(c, node, TRUE) THEN FALSE
    ELSE ~shares_all_roots(node, query[c].table_set \cup query[c].select_set)

\* a plausible slip in set_ref: the alias is written through to the top
\* context's table
RefsAfterSet_top(c, node, alias) ==
    [table_refs EXCEPT ![top_context(c)] = [@ EXCEPT ![node] = alias]]

\* QueryContext.set_ref, as the new value of table_refs
RefsAfterSet(c, node, alias) ==
    [table_refs EXCEPT ![c] = [@ EXCEPT ![node] = alias]]

\* QueryContext.subcontext: a new context whose parent is c
subcontext(c) ==
    /\ nctx < MaxCtx
    /\ nctx' = nctx + 1
    /\ parent' = [parent EXCEPT ![nctx + 1] = c]
    /\ last' = Call("subcontext", c, "None")
    /\ UNCHANGED <<ncalls, table_refs, extracted_subexprs, query, memoVars, trVars, bkVars, extVars>>

\* QueryContext.make_alias
make_alias(c, node) ==
    /\ ncalls < MaxCalls
    /\ ncalls' = ncalls + 1
    /\ table_refs' = RefsAfterSet(c, node, alias_walk(parent[c], node, NumRefs(c)))
    /\ last' = Call("make_alias", c, node)
    /\ UNCHANGED <<nctx, parent, extracted_subexprs, query, memoVars, trVars, bkVars, extVars>>

\* QueryContext.set_ref
set_ref(c, node, alias) ==
    /\ ncalls < MaxCalls
    /\ ncalls' = ncalls + 1
    /\ table_refs' = RefsAfterSet(c, node, alias)
    /\ last' = Call("set_ref", c, node)
    /\ UNCHANGED <<nctx, parent, extracted_subexprs, query, memoVars, trVars, bkVars, extVars>>

\* a plausible slip in set_extracted: the node is marked, no alias is made
set_extracted_noalias(c, node) ==
    /\ ncalls < MaxCalls
    /\ ncalls' = ncalls + 1
    /\ extracted_subexprs' = [extracted_subexprs EXCEPT ![c] = @ \cup {node}]
    /\ last' = Call("set_extracted", c, node)
    /\ UNCHANGED <<nctx, parent, table_refs, query, memoVars, trVars, bkVars, extVars>>

\* QueryContext.set_extracted
set_extracted(c, node) ==
    /\ ncalls < MaxCalls
    /\ ncalls' = ncalls + 1
    /\ extracted_subexprs' = [extracted_subexprs EXCEPT ![c] = @ \cup {node}]
    /\ table_refs' = RefsAfterSet(c, node, alias_walk(parent[c], node, NumRefs(c)))
    /\ last' = Call("set_extracted", c, node)
    /\ UNCHANGED <<nctx, parent, query, memoVars, trVars, bkVars, extVars>>

\* QueryContext.set_query
set_query(c, q) ==
    /\ ncalls < MaxCalls
    /\ ncalls' = ncalls + 1
    /\ query' = [query EXCEPT ![c] = q]
    /\ last' = Call("set_query", c, "None")
    /\ UNCHANGED <<nctx, parent, table_refs, extracted_subexprs, memoVars, trVars, bkVars, extVars>>

\* QueryContext.set_always_alias
set_always_alias(c) ==
    /\ ncalls < MaxCalls
    /\ ncalls' = ncalls + 1
    /\ always_alias' = [always_alias EXCEPT ![c] = TRUE]
    /\ last' = Call("set_always_alias", c, "None")
    /\ UNCHANGED <<nctx, parent, table_refs, extracted_subexprs, query, memoVars,
                   trVars, bkVars, lwVars, grVars, stVars, qret>>

\* QueryContext.need_aliases
need_aliases(c) == always_alias[c] \/ NumRefs(c) > 1

\* what a query returned: which method, and the value (an alias, None, True
\* or False)
QRet(op, val) == [op |-> op, val |-> val]
PyBool(b) == IF b THEN "True" ELSE "False"

\* the queries of a context, as calls: each returns and writes nothing
get_ref_call(c, node) ==
    /\ ncalls < MaxCalls
    /\ ncalls' = ncalls + 1
    /\ qret' = QRet("get_ref", get_ref(c, node))
    /\ UNCHANGED <<nctx, parent, table_refs, extracted_subexprs, query, last, memoVars,
                   trVars, bkVars, lwVars, grVars, stVars, always_alias>>

has_ref_call(c, node, parent_contexts) ==
    /\ ncalls < MaxCalls
    /\ ncalls' = ncalls + 1
    /\ qret' = QRet("has_ref", PyBool(has_ref(c, node, parent_contexts)))
    /\ UNCHANGED <<nctx, parent, table_refs, extracted_subexprs, query, last, memoVars,
                   trVars, bkVars, lwVars, grVars, stVars, always_alias>>

need_aliases_call(c) ==
    /\ ncalls < MaxCalls
    /\ ncalls' = ncalls + 1
    /\ qret' = QRet("need_aliases", PyBool(need_aliases(c)))
    /\ UNCHANGED <<nctx, parent, table_refs, extracted_subexprs, query, last, memoVars,
                   trVars, bkVars, lwVars, grVars, stVars, always_alias>>

is_extracted_call(c, node) ==
    /\ ncalls < MaxCalls
    /\ ncalls' = ncalls + 1
    /\ qret' = QRet("is_extracted", PyBool(is_extracted(c, node)))
    /\ UNCHANGED <<nctx, parent, table_refs, extracted_subexprs, query, last, memoVars,
                   trVars, bkVars, lwVars, grVars, stVars, always_alias>>

(***************************************************************************)
(* get_compiled_expr: the memo of the top context.                         *)
(***************************************************************************)
\* isinstance(node, (ops.SQLQueryResult, ops.SQLStringView))
IsQueryNode(node) == node = "sqlq"
\* node.query of such a node
NodeQuery(node) == "SELECT 1"
\* the nodes below a node of the expression DAG: what compiling it may ask for
SubExprs(node) == IF node = "join" THEN {"tbl", "sqlq"} ELSE {}

\* what a get_compiled_expr call returned: to which context, for which node,
\* the text, and whether it came out of the memo
Return(c, node, text, cached) ==
    [ctx |-> c, node |-> node, text |-> text, cached |-> cached]
NoRet == Return(Root, "None", NoText, FALSE)
EmptyMemo == [n \in Exprs |-> NoText]

\* a plausible slip in get_compiled_expr: the memo of self is read
memo_lookup_self(c, node) == subquery_memo[c][node]

\* self.top_context.subquery_memo[node], NoText for the KeyError
memo_lookup(c, node) == subquery_memo[top_context(c)][node]

\* self.top_context.subquery_memo[node] = result
memo_store(c, node, text) ==
    [subquery_memo EXCEPT ![top_context(c)] = [@ EXCEPT ![node] = text]]

\* who may call get_compiled_expr: anyone while nothing is being compiled;
\* during _compile_subquery, the compilation running in its sub-context, for
\* a node below the one being compiled
MayCall(c, node) ==
    IF stack = <<>> THEN TRUE
    ELSE /\ node \in SubExprs(stack[Len(stack)].node)
         /\ \E k \in 1..Len(_contexts(c)) : _contexts(c)[k] = stack[Len(stack)].sub

\* get_compiled_expr, the node is in the memo
get_compiled_expr_hit(c, node) ==
    /\ MayCall(c, node)
    /\ memo_lookup(c, node) # NoText
    /\ ret' = Return(c, node, memo_lookup(c, node), TRUE)
    /\ UNCHANGED <<ctxVars, subquery_memo, stack, compiled, trVars, bkVars, extVars>>

\* get_compiled_expr, a miss on a node that carries its own query text
get_compiled_expr_query(c, node) ==
    /\ MayCall(c, node)
    /\ memo_lookup(c, node) = NoText
    /\ IsQueryNode(node)
    /\ subquery_memo' = memo_store(c, node, NodeQuery(node))
    /\ ret' = Return(c, node, NodeQuery(node), FALSE)
    /\ UNCHANGED <<ctxVars, stack, compiled, trVars, bkVars, extVars>>

\* get_compiled_expr, a miss: _compile_subquery makes the sub-context and
\* enters compiler.to_sql
get_compiled_expr_compile(c, node) ==
    /\ MayCall(c, node)
    /\ memo_lookup(c, node) = NoText
    /\ ~IsQueryNode(node)
    /\ nctx < MaxCtx
    /\ nctx' = nctx + 1
    /\ parent' = [parent EXCEPT ![nctx + 1] = c]
    /\ stack' = Append(stack, [ctx |-> c, node |-> node, sub |-> nctx + 1])
    /\ compiled' = [compiled EXCEPT ![node] = @ + 1]
    /\ UNCHANGED <<ncalls, table_refs, extracted_subexprs, query, last,
                   subquery_memo, ret, trVars, bkVars, extVars>>

\* compiler.to_sql returns its text: get_compiled_expr stores and returns it
get_compiled_expr_return(text) ==
    /\ stack # <<>>
    /\ LET f == stack[Len(stack)] IN
        /\ subquery_memo' = memo_store(f.ctx, f.node, text)
        /\ ret' = Return(f.ctx, f.node, text, FALSE)
    /\ stack' = SubSeq(stack, 1, Len(stack) - 1)
    /\ UNCHANGED <<ctxVars, compiled, trVars, bkVars, extVars>>

(***************************************************************************)
(* ExprTranslator.translate.  A node is a record of its type (the          *)
(* discriminant), a scalar payload, its output dtype and its child nodes.  *)
(***************************************************************************)
Node(type, val, dtype, args) ==
    [type |-> type, val |-> val, dtype |-> dtype, args |-> args]

NoOp == Node("None", "", "", <<>>)
BoolCol == Node("TableColumn", "flag", "boolean", <<>>)
IntCol == Node("TableColumn", "n", "int64", <<>>)
StrCol == Node("TableColumn", "s", "string", <<>>)
ops_Literal(val, dtype) == Node("Literal", val, dtype, <<>>)
ops_ScalarParameter(name, dtype) == Node("ScalarParameter", name, dtype, <<>>)
ops_UnboundTable == Node("UnboundTable", "t", "table", <<>>)
\* an operation nobody has written a translation rule for
UserOp == Node("UserOp", "", "int64", <<IntCol>>)
ops_Max(arg) == Node("Max", "", arg.dtype, <<arg>>)
ops_Min(arg) == Node("Min", "", arg.dtype, <<arg>>)
ops_Any(arg) == Node("Any", "", "boolean", <<arg>>)
ops_NotAny(arg) == Node("NotAny", "", "boolean", <<arg>>)
ops_All(arg) == Node("All", "", "boolean", <<arg>>)
ops_NotAll(arg) == Node("NotAll", "", "boolean", <<arg>>)
ops_Equals(l, r) == Node("Equals", "", "boolean", <<l, r>>)
ops_GreaterEqual(l, r) == Node("GreaterEqual", "", "boolean", <<l, r>>)
ops_StringFind(h, n) == Node("StringFind", "", "int64", <<h, n>>)
ops_StringContains(h, n) == Node("StringContains", "", "boolean", <<h, n>>)
ops_Cast(arg, to) == Node("Cast", "", to, <<arg>>)
ops_IntervalFromInteger(arg, unit) == Node("IntervalFromInteger", unit, "interval", <<arg>>)
\* the Bucket and CategoryLabel nodes of the translator's input; the CASE
\* each is rewritten to is built branch by branch by _bucket below
BucketNode == Node("Bucket", "", "int8", <<IntCol>>)
CategoryLabelNode == Node("CategoryLabel", "", "string", <<IntCol>>)

\* the scalar parameters of the expression, by declared type
ParamNodes ==
    { ops_ScalarParameter("p", "int64"), ops_ScalarParameter("q", "struct"),
      ops_ScalarParameter("m", "map") }
\* the raw values the host binds
RawValues == {"v"}

\* the nodes translate is called on
TranslateInputs ==
    ParamNodes \cup
    { BoolCol, IntCol, ops_Literal("0", "boolean"), ops_UnboundTable, UserOp,
      ops_Max(BoolCol), ops_Min(BoolCol), ops_Any(BoolCol), ops_NotAny(BoolCol), ops_All(BoolCol),
      ops_NotAll(BoolCol), ops_StringContains(StrCol, ops_Literal("a", "string")),
      ops_GreaterEqual(ops_StringFind(StrCol, ops_Literal("a", "string")), ops_Literal("0", "int8")),
      ops_Cast(IntCol, "interval"), ops_Cast(IntCol, "string"), ops_Cast(StrCol, "interval"),
      BucketNode, CategoryLabelNode }

\* the keys of ExprTranslator._rewrites (the @rewrites decorators)
Rewrites ==
    {"Bucket", "CategoryLabel", "Any", "NotAny", "All", "NotAll", "Cast",
     "StringContains"}

\* operation_registry of ibis.backends.base.sql.registry: the types it has a
\* formatter for, among those of this model
OperationRegistry ==
    {"TableColumn", "Literal", "Max", "Min", "Equals", "GreaterEqual",
     "StringFind", "Cast", "IntervalFromInteger", "SearchedCase", "SimpleCase"}

\* the types add_operation is called with
AddedTypes == {"UserOp", "Cast", "UnboundTable"}

\* the subclasses of ops.TableNode
TableNodeTypes == {"UnboundTable"}

\* the outcomes of translate: the text a formatter made of op, the wildcard,
\* or the exception raised (exc) with the node it is about
Formatted(op) == [kind |-> "text", tag |-> "formatter", op |-> op]
Wildcard == [kind |-> "text", tag |-> "*", op |-> NoOp]
Raise(exc, op) == [kind |-> "error", tag |-> exc, op |-> op]
NoResult == [kind |-> "none", tag |-> "", op |-> NoOp]

\* a plausible slip in the Any rewrite: the other extremum
_any_expand_min(op) == ops_Min(op.args[1])

_any_expand(op) == ops_Max(op.args[1])
_notany_expand(op) == ops_Equals(ops_Max(op.args[1]), ops_Literal("0", op.args[1].dtype))
_all_expand(op) == ops_Min(op.args[1])
_notall_expand(op) == ops_Equals(ops_Min(op.args[1]), ops_Literal("0", op.args[1].dtype))
_rewrite_cast(op) ==
    IF op.dtype = "interval" /\ op.args[1].dtype = "int64"
    THEN ops_IntervalFromInteger(op.args[1], "s")
    ELSE op
\* a plausible slip in the containment rewrite: needle and haystack swapped
_rewrite_string_contains_swapped(op) ==
    ops_GreaterEqual(ops_StringFind(op.args[2], op.args[1]), ops_Literal("0", "int8"))

_rewrite_string_contains(op) ==
    ops_GreaterEqual(ops_StringFind(op.args[1], op.args[2]), ops_Literal("0", "int8"))

\* self._rewrites[type(op)](op)
rewrite(op) ==
    CASE op.type = "Any" -> _any_expand(op)
      [] op.type = "NotAny" -> _notany_expand(op)
      [] op.type = "All" -> _all_expand(op)
      [] op.type = "NotAll" -> _notall_expand(op)
      [] op.type = "Cast" -> _rewrite_cast(op)
      [] op.type = "StringContains" -> _rewrite_string_contains(op)
      [] op.type = "Bucket" -> Node("SearchedCase", "", op.dtype, op.args)
      [] op.type = "CategoryLabel" -> Node("SimpleCase", "", op.dtype, op.args)

\* ibis.struct / ibis.map / ibis.literal of the raw value with the declared
\* type, then .op(): each builds a literal node of that type
make_literal(raw_value, dtype) ==
    IF dtype = "struct" THEN ops_Literal(raw_value, dtype)
    ELSE IF dtype = "map" THEN ops_Literal(raw_value, dtype)
    ELSE ops_Literal(raw_value, dtype)

\* a plausible slip in the last branch of translate: another type is named
registry_dispatch_misnamed(op) ==
    IF op.type \in registry THEN Formatted(op)
    ELSE Raise("OperationNotDefinedError", NoOp)

\* the last two branches of translate: the registry lookup
registry_dispatch(op) ==
    IF op.type \in registry THEN Formatted(op)
    ELSE Raise("OperationNotDefinedError", op)

RECURSIVE translate(_)

\* ExprTranslator._trans_param
_trans_param(op) ==
    IF op \notin DOMAIN params THEN Raise("KeyError", op)
    ELSE translate(make_literal(params[op], op.dtype))

\* ExprTranslator.translate
translate(op) ==
    LET rewritten == IF op.type \in Rewrites THEN rewrite(op) ELSE op IN
    IF rewritten.type = "ScalarParameter" THEN _trans_param(rewritten)
    ELSE IF rewritten.type \in TableNodeTypes THEN Wildcard
    ELSE registry_dispatch(rewritten)

\* a call of translate on a node of the expression
translate_call(op) ==
    /\ tr_op' = op
    /\ result' = translate(op)
    /\ UNCHANGED <<registry, params, ctxVars, memoVars, bkVars, extVars>>

\* ExprTranslator.add_operation
add_operation(type) ==
    /\ registry' = registry \cup {type}
    /\ UNCHANGED <<params, tr_op, result, ctxVars, memoVars, bkVars, extVars>>

(***************************************************************************)
(* translate, statement by statement: the rewrite lookup, then the          *)
(* dispatch; _trans_param re-enters translate on the literal.              *)
(***************************************************************************)
\* translate(op) is called
translate_enter(op) ==
    /\ tr_pc \in {"idle", "done"}
    /\ tr_op' = op
    /\ tr_cur' = op
    /\ lookups' = <<0>>
    /\ result' = NoResult
    /\ tr_pc' = "rewrite"
    /\ UNCHANGED <<registry, params, ctxVars, memoVars, bkVars, lwVars, grVars, qVars>>

\* a plausible slip: the rewrite table is asked until no rewrite applies
translate_rewrite_fixpoint ==
    /\ tr_pc = "rewrite"
    /\ lookups' = [lookups EXCEPT ![Len(lookups)] = @ + 1]
    /\ tr_cur' = IF tr_cur.type \in Rewrites THEN rewrite(tr_cur) ELSE tr_cur
    /\ tr_pc' = IF tr_cur.type \in Rewrites THEN "rewrite" ELSE "dispatch"
    /\ UNCHANGED <<registry, params, tr_op, result, ctxVars, memoVars, bkVars,
                   lwVars, grVars, qVars>>

\* if type(op) in self._rewrites: op = self._rewrites[type(op)](op)
translate_rewrite ==
    /\ tr_pc = "rewrite"
    /\ lookups' = [lookups EXCEPT ![Len(lookups)] = @ + 1]
    /\ tr_cur' = IF tr_cur.type \in Rewrites THEN rewrite(tr_cur) ELSE tr_cur
    /\ tr_pc' = "dispatch"
    /\ UNCHANGED <<registry, params, tr_op, result, ctxVars, memoVars, bkVars,
                   lwVars, grVars, qVars>>

\* the isinstance chain: a bound parameter re-enters translate on its
\* literal, everything else returns or raises
translate_dispatch ==
    /\ tr_pc = "dispatch"
    /\ IF tr_cur.type = "ScalarParameter" /\ tr_cur \in DOMAIN params
       THEN /\ tr_cur' = make_literal(params[tr_cur], tr_cur.dtype)
            /\ lookups' = Append(lookups, 0)
            /\ tr_pc' = "rewrite"
            /\ UNCHANGED result
       ELSE /\ result' = IF tr_cur.type = "ScalarParameter" THEN Raise("KeyError", tr_cur)
                         ELSE IF tr_cur.type \in TableNodeTypes THEN Wildcard
                         ELSE registry_dispatch(tr_cur)
            /\ tr_pc' = "done"
            /\ UNCHANGED <<tr_cur, lookups>>
    /\ UNCHANGED <<registry, params, tr_op, ctxVars, memoVars, bkVars, lwVars, grVars, qVars>>

(***************************************************************************)
(* Values of the variables before the first call that writes them.         *)
(***************************************************************************)
\* no reduction evaluated yet
NoAgg == [node |-> NoOp, value |-> -1]
\* ibis.expr.types.core.unnamed: the display name of a node without a name
unnamed == "unnamed"
\* get_result not called yet
NoGr == [translated |-> NoResult, alias |-> ""]
\* no query made yet
NoQRet == [op |-> "none", val |-> "None"]

(***************************************************************************)
(* ExprTranslator.get_result.                                              *)
(***************************************************************************)
\* the display names of the translator's root node: none, a plain one, one
\* that needs quoting
NodeNames == {unnamed, "total", "my col"}

\* a plausible slip in _needs_name: a bare column is named like any node
_needs_name_anycolumn(op, nm) ==
    IF ~named THEN FALSE
    ELSE nm # unnamed

\* ExprTranslator._needs_name, nm being op.name
_needs_name(op, nm) ==
    IF ~named THEN FALSE
    ELSE IF op.type = "TableColumn" THEN FALSE
    ELSE nm # unnamed

\* quote_identifier(name, force=True): always quoted (the quote character is
\* written ' here)
quote_identifier(nm) == "'" \o nm \o "'"

\* what get_result returns: the translated text, bare (alias "") or followed
\* by ' AS ' and the alias
Unnamed(translated) == [translated |-> translated, alias |-> ""]

\* ExprTranslator.name: '{} AS {}'.format(translated, quote_identifier(name))
name(translated, nm) == [translated |-> translated, alias |-> quote_identifier(nm)]

\* ExprTranslator.get_result on a translator whose node is op, named nm; an
\* exception of translate leaves get_result before any name is given
get_result(op, nm) ==
    /\ tr_op' = op
    /\ node_name' = nm
    /\ result' = translate(op)
    /\ gr' = IF translate(op).kind = "error" THEN Unnamed(translate(op))
             ELSE IF _needs_name(op, nm) THEN name(translate(op), nm)
             ELSE Unnamed(translate(op))
    /\ UNCHANGED <<registry, params, named, ctxVars, memoVars, bkVars, lwVars, stVars, qVars>>

(***************************************************************************)
(* The lowered reductions and the containment test.                        *)
(***************************************************************************)
\* the largest number of rows a reduction ranges over
MaxBag == 3

\* non-empty bags of 0/1 values: the values of the argument, row by row
Bags == UNION { [1..k -> {0, 1}] : k \in 1..MaxBag }

\* boolean arguments of a reduction: two columns and a comparison
ReduceArgs ==
    { BoolCol, Node("TableColumn", "ok", "boolean", <<>>),
      ops_Equals(IntCol, ops_Literal("1", "int64")) }

\* the reductions translate is called on, and what they are lowered to
ReductionInputs ==
    UNION { { ops_Any(x), ops_NotAny(x), ops_All(x), ops_NotAll(x), ops_Max(x), ops_Min(x) } :
            x \in ReduceArgs }

\* string arguments of a containment test
StrArgs == { StrCol, ops_Literal("a", "string"), ops_Literal("b", "string") }

\* the containment tests translate is called on, and StringFind(h, n) >= 0
ContainsInputs ==
    UNION { { ops_StringContains(h, n),
              ops_GreaterEqual(ops_StringFind(h, n), ops_Literal("0", "int8")) } :
            h \in StrArgs, n \in StrArgs }

\* the value of a translated reduction over the rows b of its argument, a
\* comparison yielding 1 or 0
RECURSIVE EvalAgg(_, _)
EvalAgg(op, b) ==
    CASE op.type = "Max" -> IF \E i \in DOMAIN b : b[i] = 1 THEN 1 ELSE 0
      [] op.type = "Min" -> IF \E i \in DOMAIN b : b[i] = 0 THEN 0 ELSE 1
      [] op.type = "Literal" -> IF op.val = "0" THEN 0 ELSE 1
      [] op.type = "Equals" ->
            IF EvalAgg(op.args[1], b) = EvalAgg(op.args[2], b) THEN 1 ELSE 0

\* the engine evaluates the text of the last translate call, a reduction,
\* over the rows b
eval_reduction(b) ==
    /\ tr_op \in ReductionInputs
    /\ result.kind = "text"
    /\ bag' = b
    /\ agg' = [node |-> result.op, value |-> EvalAgg(result.op, b)]
    /\ UNCHANGED <<ctxVars, memoVars, trVars, bkVars, grVars, stVars, qVars>>

(***************************************************************************)
(* The Bucket rewrite and the CASE it builds.                              *)
(***************************************************************************)
\* the largest number of bucket edges
MaxEdges == 3
\* the values of op.arg are 0..MaxVal, the edges lie strictly inside
MaxVal == 6

\* strictly increasing edge lists
EdgeLists ==
    { b \in UNION { [1..k -> 1..(MaxVal - 1)] : k \in 1..MaxEdges } :
        \A i \in 1..Len(b), j \in 1..Len(b) : i < j => b[i] < b[j] }

\* the ops.Bucket nodes the rewrite is given
BucketOps ==
    { [buckets |-> b, closed |-> cl, close_extreme |-> ce,
       include_under |-> iu, include_over |-> io] :
        b \in EdgeLists, cl \in {"left", "right"},
        ce \in BOOLEAN, iu \in BOOLEAN, io \in BOOLEAN }

\* a CASE without ELSE yields NULL when no branch matches
Null == -1

\* the operands of a comparison: op.arg, or a bucket edge
Arg == [is_arg |-> TRUE, lit |-> 0]
Edge(b) == [is_arg |-> FALSE, lit |-> b]
\* ops.Less(left, right) / ops.LessEqual(left, right)
Cmp(cmp, left, right) == [cmp |-> cmp, left |-> left, right |-> right]
\* stmt.when(cond, bucket_id), cond the conjunction (ops.And) of conds
When(conds, id) == [conds |-> conds, result |-> id]

\* a plausible slip: the lower comparator is strict for closed='left' too
l_cmp_strict(op) == "Less"

\* l_cmp, r_cmp of _bucket
l_cmp(op) == IF op.closed = "left" THEN "LessEqual" ELSE "Less"
r_cmp(op) == IF op.closed = "left" THEN "Less" ELSE "LessEqual"

user_num_buckets(op) == Len(op.buckets) - 1

\* a plausible slip in the include_under branch: the lower comparator
under_branch_lower(op) ==
    IF op.include_under
    THEN LET cmp == IF user_num_buckets(op) > 0
                    THEN (IF op.close_extreme THEN "Less" ELSE l_cmp(op))
                    ELSE (IF op.closed = "right" THEN "LessEqual" ELSE "Less")
         IN << When(<<Cmp(cmp, Arg, Edge(op.buckets[1]))>>, 0) >>
    ELSE <<>>

\* the include_under branch
under_branch(op) ==
    IF op.include_under
    THEN LET cmp == IF user_num_buckets(op) > 0
                    THEN (IF op.close_extreme THEN "Less" ELSE r_cmp(op))
                    ELSE (IF op.closed = "right" THEN "LessEqual" ELSE "Less")
         IN << When(<<Cmp(cmp, Arg, Edge(op.buckets[1]))>>, 0) >>
    ELSE <<>>

\* the branches of the loop over zip(op.buckets, op.buckets[1:]); j counts from 0
interval_branches(op, first_id) ==
    [ k \in 1..user_num_buckets(op) |->
        LET j == k - 1
            lower == Edge(op.buckets[k])
            upper == Edge(op.buckets[k + 1])
        IN IF op.close_extreme
              /\ \/ (op.closed = "right" /\ j = 0)
                 \/ (op.closed = "left" /\ j = user_num_buckets(op) - 1)
           THEN When(<<Cmp("LessEqual", lower, Arg), Cmp("LessEqual", Arg, upper)>>,
                     first_id + j)
           ELSE When(<<Cmp(l_cmp(op), lower, Arg), Cmp(r_cmp(op), Arg, upper)>>,
                     first_id + j) ]

\* a plausible slip in the include_over branch: the last boundary is always
\* included
over_branch_closed(op, id) ==
    IF op.include_over
    THEN << When(<<Cmp("LessEqual", Edge(op.buckets[Len(op.buckets)]), Arg)>>, id) >>
    ELSE <<>>

\* the include_over branch
over_branch(op, id) ==
    IF op.include_over
    THEN LET cmp == IF user_num_buckets(op) > 0
                    THEN (IF op.close_extreme THEN "Less" ELSE l_cmp(op))
                    ELSE (IF op.closed = "right" THEN "Less" ELSE "LessEqual")
         IN << When(<<Cmp(cmp, Edge(op.buckets[Len(op.buckets)]), Arg)>>, id) >>
    ELSE <<>>

\* _bucket: the branches of the CASE, in emission order (the name the result
\* is given, if any, does not change them)
_bucket(op) ==
    LET under == under_branch(op)
        inner == interval_branches(op, Len(under))
    IN under \o inner \o over_branch(op, Len(under) + Len(inner))

\* SQL's comparison of two operands, op.arg having the value v
EvalCmp(c, v) ==
    LET l == IF c.left.is_arg THEN v ELSE c.left.lit
        r == IF c.right.is_arg THEN v ELSE c.right.lit
    IN IF c.cmp = "Less" THEN l < r ELSE l <= r

Matches(branch, v) == \A i \in 1..Len(branch.conds) : EvalCmp(branch.conds[i], v)

\* SQL's searched CASE: the result of the first branch whose condition holds
CaseEval(branches, v) ==
    LET hits == { k \in 1..Len(branches) : Matches(branches[k], v) }
    IN IF hits = {} THEN Null
       ELSE branches[CHOOSE k \in hits : \A h \in hits : k <= h].result

\* translate applies the rewrite to the Bucket node
rewrite_bucket ==
    /\ bk_pc = "built"
    /\ stmt' = _bucket(bucket_op)
    /\ bk_pc' = "rewritten"
    /\ UNCHANGED <<bucket_op, value, bucket_id, ctxVars, memoVars, trVars, extVars>>

\* the engine evaluates the CASE on a row whose op.arg is v
eval_case(v) ==
    /\ bk_pc # "built"
    /\ value' = v
    /\ bucket_id' = CaseEval(stmt, v)
    /\ bk_pc' = "evaluated"
    /\ UNCHANGED <<bucket_op, stmt, ctxVars, memoVars, trVars, extVars>>

(***************************************************************************)
(* Initial states and specifications.                                      *)
(***************************************************************************)
\* one root QueryContext, freshly constructed
CtxInit ==
    /\ nctx = 1
    /\ ncalls = 0
    /\ parent = [c \in Ctxs |-> NoParent]
    /\ table_refs = [c \in Ctxs |-> EmptyRefs]
    /\ extracted_subexprs = [c \in Ctxs |-> {}]
    /\ query = [c \in Ctxs |-> NoQuery]
    /\ last = Call("__init__", Root, "None")

MemoInit ==
    /\ subquery_memo = [c \in Ctxs |-> EmptyMemo]
    /\ stack = <<>>
    /\ compiled = [n \in Exprs |-> 0]
    /\ ret = NoRet

\* no translate call yet, no parameter bound
TrIdle ==
    /\ registry = OperationRegistry
    /\ params = [p \in {} |-> "v"]
    /\ tr_op = NoOp
    /\ result = NoResult

\* no Bucket node under translation
BkIdle ==
    /\ bucket_op = [buckets |-> <<1>>, closed |-> "left", close_extreme |-> FALSE,
                    include_under |-> FALSE, include_over |-> FALSE]
    /\ stmt = <<>>
    /\ value = 0
    /\ bucket_id = Null
    /\ bk_pc = "built"

\* nothing lowered, named or queried yet; no translate call under way
LwIdle == bag = <<>> /\ agg = NoAgg
GrIdle == named = FALSE /\ node_name = unnamed /\ gr = NoGr
StIdle == tr_pc = "idle" /\ tr_cur = NoOp /\ lookups = <<>>
QIdle == always_alias = [c \in Ctxs |-> FALSE] /\ qret = NoQRet
ExtIdle == LwIdle /\ GrIdle /\ StIdle /\ QIdle

Init == CtxInit /\ MemoInit /\ TrIdle /\ BkIdle /\ ExtIdle

\* the context tree under every operation that writes it
Next ==
    \/ \E c \in Live : subcontext(c)
    \/ \E c \in Live, node \in Nodes : make_alias(c, node)
    \/ \E c \in Live, node \in Nodes, alias \in RefAliases : set_ref(c, node, alias)
    \/ \E c \in Live, node \in Nodes : set_extracted(c, node)

Spec == Init /\ [][Next]_vars

\* alias assignment alone: subcontext() and make_alias(node)
NextAlias ==
    \/ \E c \in Live : subcontext(c)
    \/ \E c \in Live, node \in Nodes : make_alias(c, node)

SpecAlias == Init /\ [][NextAlias]_vars

\* the same, every caller asking has_ref first: make_alias only on a node the
\* context holds no alias for
make_alias_unaliased(c, node) ==
    /\ ~has_ref(c, node, FALSE)
    /\ make_alias(c, node)

NextAliasOnce ==
    \/ \E c \in Live : subcontext(c)
    \/ \E c \in Live, node \in Nodes : make_alias_unaliased(c, node)

SpecAliasOnce == Init /\ [][NextAliasOnce]_vars

\* aliases and extraction
NextExtract ==
    \/ \E c \in Live : subcontext(c)
    \/ \E c \in Live, node \in Nodes : make_alias(c, node)
    \/ \E c \in Live, node \in Nodes : set_extracted(c, node)

SpecExtract == Init /\ [][NextExtract]_vars

\* aliases and the query of each scope: the state is_foreign_expr reads
NextForeign ==
    \/ \E c \in Live : subcontext(c)
    \/ \E c \in Live, node \in Nodes : make_alias(c, node)
    \/ \E c \in Live, q \in Queries : set_query(c, q)

SpecForeign == Init /\ [][NextForeign]_vars

\* memoized compilation of subqueries
NextMemo ==
    \/ \E c \in Live : subcontext(c)
    \/ \E c \in Live, node \in Exprs : get_compiled_expr_hit(c, node)
    \/ \E c \in Live, node \in Exprs : get_compiled_expr_query(c, node)
    \/ \E c \in Live, node \in Exprs : get_compiled_expr_compile(c, node)
    \/ \E text \in CompileTexts : get_compiled_expr_return(text)

SpecMemo == Init /\ [][NextMemo]_vars

\* translate under every binding of the parameters
InitTranslate ==
    /\ CtxInit /\ MemoInit /\ BkIdle /\ ExtIdle
    /\ registry = OperationRegistry
    /\ params \in UNION { [bound -> RawValues] : bound \in SUBSET ParamNodes }
    /\ tr_op = NoOp
    /\ result = NoResult

NextTranslate ==
    \/ \E op \in TranslateInputs : translate_call(op)
    \/ \E type \in AddedTypes : add_operation(type)

SpecTranslate == InitTranslate /\ [][NextTranslate]_vars

\* the lowering rewrites: translate on reductions and containment tests, the
\* lowered reduction evaluated over every bag
NextLower ==
    \/ \E op \in ReductionInputs \cup ContainsInputs : translate_call(op)
    \/ \E type \in AddedTypes : add_operation(type)
    \/ \E b \in Bags : eval_reduction(b)

SpecLower == Init /\ [][NextLower]_vars

\* get_result of a translator constructed in either mode
InitResult ==
    /\ CtxInit /\ MemoInit /\ BkIdle /\ LwIdle /\ StIdle /\ QIdle
    /\ registry = OperationRegistry
    /\ params \in UNION { [bound -> RawValues] : bound \in SUBSET ParamNodes }
    /\ tr_op = NoOp
    /\ result = NoResult
    /\ named \in BOOLEAN
    /\ node_name = unnamed
    /\ gr = NoGr

NextResult ==
    \/ \E op \in TranslateInputs, nm \in NodeNames : get_result(op, nm)
    \/ \E type \in AddedTypes : add_operation(type)

SpecResult == InitResult /\ [][NextResult]_vars

\* translate statement by statement; a call that was entered runs on
NextSteps ==
    \/ \E op \in TranslateInputs : translate_enter(op)
    \/ translate_rewrite
    \/ translate_dispatch
    \/ \E type \in AddedTypes : add_operation(type)

SpecSteps ==
    /\ InitTranslate
    /\ [][NextSteps]_vars
    /\ WF_vars(translate_rewrite)
    /\ WF_vars(translate_dispatch)

\* the number of calls, writes and queries together, made on the chain of
\* contexts the frame of the writers is checked on
MaxFrameCalls == 3

\* the root context after get_compiled_expr was asked for the pre-rendered
\* query node: the top context's memo holds its text
InitFrame ==
    /\ CtxInit /\ TrIdle /\ BkIdle /\ ExtIdle
    /\ subquery_memo = [c \in Ctxs |-> IF c = Root
                                       THEN [EmptyMemo EXCEPT !["sqlq"] = NodeQuery("sqlq")]
                                       ELSE EmptyMemo]
    /\ stack = <<>>
    /\ compiled = [n \in Exprs |-> 0]
    /\ ret = Return(Root, "sqlq", NodeQuery("sqlq"), FALSE)

\* a chain of contexts under its writers and its queries
NextFrame ==
    \/ subcontext(nctx)
    \/ \E c \in Live, node \in Nodes : ncalls < MaxFrameCalls /\ make_alias(c, node)
    \/ \E c \in Live, node \in Nodes : ncalls < MaxFrameCalls /\ set_ref(c, node, "s")
    \/ \E c \in Live, node \in Nodes : ncalls < MaxFrameCalls /\ set_extracted(c, node)
    \/ \E c \in Live : ncalls < MaxFrameCalls /\ set_always_alias(c)
    \/ \E c \in Live, node \in Nodes : ncalls < MaxFrameCalls /\ get_ref_call(c, node)
    \/ \E c \in Live, node \in Nodes, pc \in BOOLEAN :
            ncalls < MaxFrameCalls /\ has_ref_call(c, node, pc)
    \/ \E c \in Live : ncalls < MaxFrameCalls /\ need_aliases_call(c)
    \/ \E c \in Live, node \in Nodes : ncalls < MaxFrameCalls /\ is_extracted_call(c, node)

SpecFrame == InitFrame /\ [][NextFrame]_vars

\* the Bucket rewrite on every Bucket node, its CASE on every value
InitBucket ==
    /\ CtxInit /\ MemoInit /\ TrIdle /\ ExtIdle
    /\ bucket_op \in BucketOps
    /\ stmt = <<>>
    /\ value = 0
    /\ bucket_id = Null
    /\ bk_pc = "built"

NextBucket ==
    \/ rewrite_bucket
    \/ \E v \in 0..MaxVal : eval_case(v)

SpecBucket == InitBucket /\ [][NextBucket]_vars

(***************************************************************************)
(* The properties.                                                         *)
(***************************************************************************)
\* the contexts visible from c: c and its ancestors
Visible(c) == { _contexts(c)[k] : k \in 1..Len(_contexts(c)) }
\* the proper ancestors of c
Ancestors(c) == Visible(c) \ {c}

\* C1 (alias uniqueness): after any subcontext() and make_alias calls, no two
\* different nodes visible from a context (its own alias table plus those of
\* its ancestors) carry the same alias.
C1_AliasUniqueness ==
    \A c \in Live : \A c1 \in Visible(c), c2 \in Visible(c) :
        \A n1 \in Nodes, n2 \in Nodes :
            (n1 # n2 /\ table_refs[c1][n1] # NoAlias /\ table_refs[c2][n2] # NoAlias)
                => table_refs[c1][n1] # table_refs[c2][n2]

\* C2 (alias stability): once a node has an alias in a context, a later
\* make_alias call on that context and node leaves the alias as it was.
C2_AliasStability ==
    [][ \A c \in Live, n \in Nodes :
            (make_alias(c, n) /\ table_refs[c][n] # NoAlias)
                => table_refs'[c][n] = table_refs[c][n] ]_vars


\* C3 (memoization): in one context tree _compile_subquery runs at most once
\* per node; whatever get_compiled_expr returns for a node is the text the
\* top context's memo holds for it; an entry of that memo never changes once
\* written; and no other context's memo is ever written.
C3_Memoization ==
    /\ [](\A n \in Exprs : compiled[n] <= 1)
    /\ [](ret.node # "None" => ret.text = subquery_memo[Root][ret.node])
    /\ [](\A c \in Ctxs \ {Root} : subquery_memo[c] = EmptyMemo)
    /\ [][ \A n \in Exprs :
              subquery_memo[Root][n] # NoText
                  => subquery_memo'[Root][n] = subquery_memo[Root][n] ]_vars

\* a descendant context is handed, from the memo, the text of a node that
\* was compiled once, while the other text might have been rendered
C3_Witness ==
    /\ ret.cached
    /\ ret.ctx # Root
    /\ ret.node = "join"
    /\ ret.text = "sql2"
    /\ compiled["join"] = 1
    /\ compiled["tbl"] = 1

\* C4 (extracted-ref redirection): for a node in the top context's extracted
\* set, get_ref on any descendant context returns the alias of the top
\* context's alias table, whatever the aliases of the descendant and of the
\* contexts in between.
C4_ExtractedRefRedirection ==
    \A c \in Live \ {Root}, n \in Nodes :
        n \in extracted_subexprs[Root] => get_ref(c, n) = table_refs[Root][n]

\* a context two levels down and its parent both hold another alias for a
\* node extracted in the top context
C4_Witness ==
    \E c \in Live, n \in Nodes :
        /\ parent[c] \notin {NoParent, Root}
        /\ n \in extracted_subexprs[Root]
        /\ table_refs[Root][n] # NoAlias
        /\ table_refs[c][n] \notin {NoAlias, table_refs[Root][n]}
        /\ table_refs[parent[c]][n] \notin {NoAlias, table_refs[Root][n]}

\* C5: set_extracted(node) on any context adds node to the top context's
\* extracted set, so that is_extracted(node) is true from every context of
\* the tree afterwards, and node has an alias in the calling context.
C5_SetExtractedMarksTop ==
    [][ \A c \in Live, n \in Nodes :
            set_extracted(c, n)
                => /\ \A d \in Live : n \in extracted_subexprs'[top_context(d)]
                   /\ table_refs'[c][n] # NoAlias ]_vars

\* the ancestors of c that hold an alias for node
Holders(c, node) == { a \in Ancestors(c) : table_refs[a][node] # NoAlias }
\* the nearest of them: every other one is above it
Nearest(c, node) ==
    CHOOSE h \in Holders(c, node) : \A h2 \in Holders(c, node) : h2 \in Visible(h)
\* the number of aliases of c and of all its ancestors
VisibleCount(c) ==
    Cardinality({ p \in Visible(c) \X Nodes : table_refs[p[1]][p[2]] # NoAlias })

ScopeRoots(c) == query[c].table_set \cup query[c].select_set
\* node has an alias in c or in an ancestor of c
VisibleAlias(c, node) == \E a \in Visible(c) : table_refs[a][node] # NoAlias

\* C7 as stated: in a scope whose query is set, a node with no alias in the
\* current context whose roots are disjoint from the scope's is foreign; a
\* node whose roots are all among the scope's is local; a node with an alias
\* in the current context or an ancestor is local.
C7_CorrelationAsStated ==
    \A c \in Live, n \in Nodes :
        query[c].set =>
            /\ (table_refs[c][n] = NoAlias /\ Roots(n) \cap ScopeRoots(c) = {})
                   => is_foreign_expr(c, n)
            /\ Roots(n) \subseteq ScopeRoots(c) => ~is_foreign_expr(c, n)
            /\ VisibleAlias(c, n) => ~is_foreign_expr(c, n)

\* C7, amended: the first case needs the node to have no alias in the
\* current context nor in any ancestor.
C7_CorrelationDetection ==
    \A c \in Live, n \in Nodes :
        query[c].set =>
            /\ (~VisibleAlias(c, n) /\ Roots(n) \cap ScopeRoots(c) = {})
                   => is_foreign_expr(c, n)
            /\ Roots(n) \subseteq ScopeRoots(c) => ~is_foreign_expr(c, n)
            /\ VisibleAlias(c, n) => ~is_foreign_expr(c, n)

\* a scope whose roots are disjoint from those of a node that only an
\* ancestor has aliased, and another node of that scope that is foreign
C7_Witness ==
    \E c \in Live, n \in Nodes, m \in Nodes :
        /\ query[c].set
        /\ table_refs[c][n] = NoAlias
        /\ \E a \in Ancestors(c) : table_refs[a][n] # NoAlias
        /\ Roots(n) \cap ScopeRoots(c) = {}
        /\ ~is_foreign_expr(c, n)
        /\ is_foreign_expr(c, m)

\* C8 as stated: translate on a node whose type has neither a registry entry
\* nor a rewrite raises OperationNotDefined naming that type, and returns no
\* text.
C8_UnregisteredAsStated ==
    [][ \A op \in TranslateInputs :
            (translate_call(op) /\ op.type \notin registry /\ op.type \notin Rewrites)
                => result' = Raise("OperationNotDefinedError", op) ]_vars

\* C8, amended: the same for a node that is neither a scalar parameter nor a
\* table node (those are handled before the registry is asked).
C8_UnregisteredOperatorFailure ==
    [][ \A op \in TranslateInputs :
            ( /\ translate_call(op)
              /\ op.type \notin registry
              /\ op.type \notin Rewrites
              /\ op.type # "ScalarParameter"
              /\ op.type \notin TableNodeTypes )
                => result' = Raise("OperationNotDefinedError", op) ]_vars

\* translate was called on the operation without a rule and raised
C8_Witness ==
    /\ tr_op = UserOp
    /\ "UserOp" \notin registry
    /\ result = Raise("OperationNotDefinedError", UserOp)

\* C9: translate on a scalar parameter absent from the parameter mapping
\* fails with ParameterNotBound; on one present in the mapping it translates
\* the literal of the bound value with the parameter's declared type.
C9_UnboundParameterFailure ==
    [][ \A op \in ParamNodes :
            translate_call(op)
                => result' = IF op \in DOMAIN params
                             THEN Formatted(ops_Literal(params[op], op.dtype))
                             ELSE Raise("ParameterNotBound", op) ]_vars

\* C10 (bucket boundary laws), edges b_0 < ... < b_n being buckets[1..n+1]:
\* with closed='left', include_under and close_extreme unset, a value in
\* [b_j, b_(j+1)) maps to bucket j and b_n maps to NULL, or to bucket n when
\* include_over is set; with closed='right', close_extreme set and
\* include_under unset, b_0 maps to bucket 0.
C10_BucketBoundaryLaws ==
    bk_pc = "evaluated" =>
        LET b == bucket_op.buckets
            n == Len(b) - 1
        IN /\ ( /\ bucket_op.closed = "left"
                /\ ~bucket_op.include_under
                /\ ~bucket_op.close_extreme )
                  => /\ \A j \in 0..(n - 1) :
                            (b[j + 1] <= value /\ value < b[j + 2]) => bucket_id = j
                     /\ value = b[n + 1]
                            => bucket_id = IF bucket_op.include_over THEN n ELSE Null
           /\ ( /\ bucket_op.closed = "right"
                /\ bucket_op.close_extreme
                /\ ~bucket_op.include_under
                /\ n >= 1
                /\ value = b[1] )
                  => bucket_id = 0

\* three edges, closed='left', include_over: the last edge is evaluated and
\* maps to bucket 2
C10_Witness ==
    /\ bk_pc = "evaluated"
    /\ bucket_op = [buckets |-> <<1, 3, 5>>, closed |-> "left",
                    close_extreme |-> FALSE, include_under |-> FALSE,
                    include_over |-> TRUE]
    /\ value = 5
    /\ bucket_id = 2

\* C11 (boolean-reduction lowering): translate renders Any(x) as it renders
\* Max(x), NotAny(x) as Max(x) = 0, All(x) as Min(x) and NotAll(x) as
\* Min(x) = 0, for every argument x; and over any non-empty bag of 0/1
\* values the rendered form has the value of the reduction (Max is 1 iff
\* some value is true, Min is 0 iff not all values are true).
C11_BooleanReductionLowering ==
    /\ [][ \A x \in ReduceArgs :
              /\ translate_call(ops_Any(x)) => result' = translate(ops_Max(x))
              /\ translate_call(ops_All(x)) => result' = translate(ops_Min(x))
              /\ translate_call(ops_NotAny(x))
                    => result' = translate(ops_Equals(ops_Max(x), ops_Literal("0", x.dtype)))
              /\ translate_call(ops_NotAll(x))
                    => result' = translate(ops_Equals(ops_Min(x), ops_Literal("0", x.dtype))) ]_vars
    /\ [][ \A b \in Bags :
              eval_reduction(b) =>
                  LET some == \E i \in DOMAIN b : b[i] = 1
                      all == \A i \in DOMAIN b : b[i] = 1
                  IN agg'.value =
                        CASE tr_op.type \in {"Any", "Max"} -> IF some THEN 1 ELSE 0
                          [] tr_op.type = "NotAny" -> IF some THEN 0 ELSE 1
                          [] tr_op.type \in {"All", "Min"} -> IF all THEN 1 ELSE 0
                          [] tr_op.type = "NotAll" -> IF all THEN 0 ELSE 1 ]_vars

\* NotAll over a comparison was rendered as Min(x) = 0 and evaluated to true
\* over rows of which one is false
C11_Witness ==
    LET x == ops_Equals(IntCol, ops_Literal("1", "int64")) IN
    /\ tr_op = ops_NotAll(x)
    /\ result = Formatted(ops_Equals(ops_Min(x), ops_Literal("0", "boolean")))
    /\ agg.node = result.op
    /\ bag = <<1, 0, 1>>
    /\ agg.value = 1

\* C12 (containment lowering): for every haystack h and needle n, translate
\* renders Contains(h, n) as it renders StringFind(h, n) >= 0, haystack
\* first.
C12_ContainmentLowering ==
    [][ \A h \in StrArgs, n \in StrArgs :
            translate_call(ops_StringContains(h, n))
                => result' = translate(ops_GreaterEqual(ops_StringFind(h, n),
                                                        ops_Literal("0", "int8"))) ]_vars

\* a containment test whose haystack and needle differ was rendered
C12_Witness ==
    /\ tr_op = ops_StringContains(StrCol, ops_Literal("b", "string"))
    /\ result = Formatted(ops_GreaterEqual(
                    ops_StringFind(StrCol, ops_Literal("b", "string")),
                    ops_Literal("0", "int8")))

\* C13: get_result returns the translated text followed by AS and the quoted
\* name exactly when the translator is in named mode, its root node is not a
\* bare column reference and the root's display name is not the anonymous
\* sentinel; in every other case it returns the translated text unchanged.
C13_GetResultNaming ==
    [][ \A op \in TranslateInputs, nm \in NodeNames :
            (get_result(op, nm) /\ translate(op).kind = "text")
                => /\ gr'.translated = translate(op)
                   /\ gr'.alias =
                         IF named /\ op.type # "TableColumn" /\ nm # unnamed
                         THEN "'" \o nm \o "'"
                         ELSE "" ]_vars

\* in named mode, a bare column with a display name came back unwrapped
C13_Witness ==
    /\ named
    /\ tr_op = IntCol
    /\ node_name = "total"
    /\ gr = [translated |-> Formatted(IntCol), alias |-> ""]

\* C14 as stated: with include_under set the first branch compares the value
\* to the first boundary, with strict-less if close_extreme is set and
\* otherwise with the lower comparator (<= for closed='left', < for
\* closed='right') when there is more than one interval, and with <= for
\* closed='right', < otherwise, when there is a single boundary; the
\* include_over branch is the last one and tests the last boundary.
C14_UnderOverAsStated ==
    bk_pc # "built" =>
        LET b == bucket_op.buckets
            n == Len(b) - 1
        IN /\ bucket_op.include_under =>
                /\ n > 1 => stmt[1] = When(<<Cmp(IF bucket_op.close_extreme THEN "Less"
                                                 ELSE IF bucket_op.closed = "left"
                                                      THEN "LessEqual" ELSE "Less",
                                                 Arg, Edge(b[1]))>>, 0)
                /\ n = 0 => stmt[1] = When(<<Cmp(IF bucket_op.closed = "right"
                                                 THEN "LessEqual" ELSE "Less",
                                                 Arg, Edge(b[1]))>>, 0)
           /\ bucket_op.include_over =>
                /\ stmt[Len(stmt)].conds[1].left = Edge(b[n + 1])
                /\ stmt[Len(stmt)].conds[1].right = Arg

\* C14, amended: with at least one interval the include_under branch uses
\* strict-less if close_extreme is set and otherwise the upper comparator of
\* the intervals (< for closed='left', <= for closed='right'); with a single
\* boundary it uses <= for closed='right' and < otherwise.  The include_over
\* branch, the last one, compares the last boundary to the value: with at
\* least one interval by strict-less if close_extreme is set and otherwise
\* by the lower comparator (<= for closed='left', < for closed='right');
\* with a single boundary by < for closed='right' and <= otherwise.
C14_BucketUnderOver ==
    bk_pc # "built" =>
        LET b == bucket_op.buckets
            n == Len(b) - 1
            left == bucket_op.closed = "left"
        IN /\ bucket_op.include_under =>
                stmt[1] = When(<<Cmp(IF n >= 1
                                     THEN (IF bucket_op.close_extreme THEN "Less"
                                           ELSE IF left THEN "Less" ELSE "LessEqual")
                                     ELSE (IF left THEN "Less" ELSE "LessEqual"),
                                     Arg, Edge(b[1]))>>, 0)
           /\ bucket_op.include_over =>
                stmt[Len(stmt)] =
                    When(<<Cmp(IF n >= 1
                               THEN (IF bucket_op.close_extreme THEN "Less"
                                     ELSE IF left THEN "LessEqual" ELSE "Less")
                               ELSE (IF left THEN "LessEqual" ELSE "Less"),
                               Edge(b[n + 1]), Arg)>>, Len(stmt) - 1)

\* two intervals closed on the left, both catch-all branches, close_extreme
\* unset: the rewrite emitted arg < 1 first and 5 <= arg last
C14_Witness ==
    /\ bk_pc = "rewritten"
    /\ bucket_op = [buckets |-> <<1, 3, 5>>, closed |-> "left",
                    close_extreme |-> FALSE, include_under |-> TRUE,
                    include_over |-> TRUE]
    /\ stmt[1] = When(<<Cmp("Less", Arg, Edge(1))>>, 0)
    /\ stmt[4] = When(<<Cmp("LessEqual", Edge(5), Arg)>>, 3)

\* the branches of the CASE whose condition the evaluated value satisfies
Hits == { k \in 1..Len(stmt) : Matches(stmt[k], value) }

\* C16 (bucket branches are mutually exclusive): for strictly increasing
\* boundaries and every closed, close_extreme, include_under, include_over,
\* no value satisfies the conditions of two emitted branches; and with
\* include_under and include_over both set every value satisfies exactly
\* one, so the bucket is never null.
C16_BranchesExclusive ==
    bk_pc = "evaluated" =>
        /\ Cardinality(Hits) <= 1
        /\ (bucket_op.include_under /\ bucket_op.include_over)
              => (Cardinality(Hits) = 1 /\ bucket_id # Null)

\* both catch-all branches and close_extreme: the last boundary, closed by
\* close_extreme, falls in the last interval alone
C16_Witness ==
    /\ bk_pc = "evaluated"
    /\ bucket_op = [buckets |-> <<1, 3, 5>>, closed |-> "left",
                    close_extreme |-> TRUE, include_under |-> TRUE,
                    include_over |-> TRUE]
    /\ value = 5
    /\ Hits = {3}
    /\ bucket_id = 2

\* C15: each translate call asks the rewrite table exactly once, about the
\* node it was given, also when the node's type has a registry entry; what
\* the rewrite returns is dispatched without another lookup, also when its
\* type has a rewrite (the cast rewrite returning the cast itself); so every
\* call that is entered reaches a dispatch outcome or an error.
C15_RewriteConsultedOnce ==
    /\ [](\A i \in DOMAIN lookups : lookups[i] <= 1)
    /\ [](tr_pc = "done" => \A i \in DOMAIN lookups : lookups[i] = 1)
    /\ [][ translate_rewrite =>
              /\ Len(lookups) = 1 => tr_cur = tr_op
              /\ tr_cur' = IF tr_cur.type \in Rewrites THEN rewrite(tr_cur) ELSE tr_cur
              /\ tr_pc' = "dispatch" ]_vars
    /\ [][ (translate_dispatch /\ tr_pc' = "done") => result' = translate(tr_op) ]_vars
    /\ [][ (translate_dispatch /\ tr_op = ops_Cast(IntCol, "interval"))
              => result' = Formatted(ops_IntervalFromInteger(IntCol, "s")) ]_vars
    /\ (tr_pc = "rewrite") ~> (tr_pc = "done")

\* a cast the rewrite returns as it is came out of the registry after one
\* lookup
C15_Witness ==
    /\ tr_pc = "done"
    /\ tr_op = ops_Cast(IntCol, "string")
    /\ lookups = <<1>>
    /\ result = Formatted(ops_Cast(IntCol, "string"))

\* C17: in every state reached through subcontext, make_alias, set_ref and
\* set_extracted, a node in a context's extracted set has an alias in that
\* context's alias table; so get_ref on the extracted path (the node is in
\* the top context's extracted set) never returns "no alias".
C17_ExtractedHasAlias ==
    /\ \A c \in Live, n \in Nodes :
          n \in extracted_subexprs[c] => table_refs[c][n] # NoAlias
    /\ \A c \in Live, n \in Nodes :
          is_extracted(c, n) => get_ref(c, n) # NoAlias

\* a sub-context without an alias of its own for a node extracted in the top
\* context, which has extracted another node itself
C17_Witness ==
    \E c \in Live \ {Root}, n \in Nodes, m \in Nodes :
        /\ n \in extracted_subexprs[Root]
        /\ table_refs[c][n] = NoAlias
        /\ get_ref(c, n) = table_refs[Root][n]
        /\ m \in extracted_subexprs[c]

\* C18 (frame of the alias bookkeeping): make_alias(node) and
\* set_ref(node, alias) on a context c change the entry for node of c's own
\* alias table and nothing else: not the other entries, not the tables of
\* c's ancestors and descendants, not the memo, not any extracted set, not
\* the parent links.  get_ref, has_ref, need_aliases and is_extracted change
\* no state of any context, and on a miss return None, respectively False
\* (stated as: a step that returns anything else is not a missing query).
C18_AliasFrame ==
    /\ [][ LET c == last'.ctx
               n == last'.node
           IN ( /\ last'.op \in {"make_alias", "set_ref"}
                /\ qret' = qret
                /\ (make_alias(c, n) \/ \E a \in RefAliases : set_ref(c, n, a)) )
                  => /\ \A d \in Ctxs, m \in Nodes :
                           (d # c \/ m # n) => table_refs'[d][m] = table_refs[d][m]
                     /\ UNCHANGED <<subquery_memo, extracted_subexprs, parent, nctx>> ]_vars
    /\ [][ ( /\ last' = last
             /\ ncalls' = ncalls + 1
             /\ \E c \in Live, n \in Nodes :
                   \/ get_ref_call(c, n)
                   \/ \E pc \in BOOLEAN : has_ref_call(c, n, pc)
                   \/ need_aliases_call(c)
                   \/ is_extracted_call(c, n) )
              => UNCHANGED <<nctx, parent, table_refs, extracted_subexprs, query,
                             subquery_memo, always_alias>> ]_vars
    /\ [][ ( /\ last' = last
             /\ ncalls' = ncalls + 1
             /\ qret'.op = "get_ref"
             /\ qret'.val # "None" )
              => \A c \in Live, n \in Nodes :
                    ~ ( /\ table_refs[c][n] = NoAlias
                        /\ n \notin extracted_subexprs[top_context(c)]
                        /\ get_ref_call(c, n) ) ]_vars
    /\ [][ ( /\ last' = last
             /\ ncalls' = ncalls + 1
             /\ qret'.op \in {"has_ref", "is_extracted"}
             /\ qret'.val # "False" )
              => \A c \in Live, n \in Nodes :
                    /\ ~ (table_refs[c][n] = NoAlias /\ has_ref_call(c, n, FALSE))
                    /\ ~ ( /\ \A d \in Visible(c) : table_refs[d][n] = NoAlias
                           /\ has_ref_call(c, n, TRUE) )
                    /\ ~ ( /\ n \notin extracted_subexprs[top_context(c)]
                           /\ is_extracted_call(c, n) ) ]_vars

\* get_ref missed on a sub-context, which then made an alias for the node
\* while the top context held an alias, an extracted node and a memo entry
C18_Witness ==
    \E c \in Live \ {Root} :
        /\ last = Call("make_alias", c, "B")
        /\ table_refs[c]["B"] = "t1"
        /\ table_refs[Root]["A"] = "t0"
        /\ table_refs[Root]["B"] = NoAlias
        /\ "A" \in extracted_subexprs[Root]
        /\ subquery_memo[Root]["sqlq"] # NoText
        /\ qret = QRet("get_ref", "None")

====
